---- MODULE Spec2Model ----
(***************************************************************************)
(* Model of gpxviewer/ui.py: the track registry (_TrackManager) and the    *)
(* parts of MainWindow that drive it (lazy loading, selection, styling,    *)
(* loading and deleting traces).  Every handler is one action; handlers    *)
(* are written as operators on a record s holding the program state, so    *)
(* that a handler calling another is an operator applied to the result of  *)
(* another, in the order of the code.                                      *)
(***************************************************************************)
EXTENDS Integers, Sequences, FiniteSets, TLC

\* ---------------------------------------------------------------- constants
\* alpha values are kept in tenths: 0.5 -> 5, 0.8 -> 8
ALPHA_UNSELECTED == 5
ALPHA_SELECTED == 8
LAZY_LOAD_AFTER_N_FILES == 3
\* gpstrack.props.alpha = 0.8 of a new MapTrack
ALPHA_NEW == 8

\* ------------------------------------------------------------------- bounds
\* longest list of files given at startup
MaxFiles == 3
\* most files chosen in one Open dialog
MaxOpen == 1

None == <<"None">>

\* the files a user can name: two that parse and one that does not
Files == {"a.gpx", "b.gpx", "bad.gpx"}

\* geometry of each file: tracks -> segments -> points (a point is a number)
get_points_of(filename) ==
    CASE filename = "a.gpx" -> << << <<1, 2>> >> >>
      [] filename = "b.gpx" -> << << <<3>>, << >> >>, << <<4, 5>> >> >>
      [] OTHER -> << >>

\* GPXTrace(filename) raises for a file that does not parse
GPXTraceRaises(filename) == filename = "bad.gpx"

\* GPXTrace(filename): the parsed trace; its full path identifies the file
GPXTrace(filename) ==
    [full_path |-> filename, points |-> get_points_of(filename)]

get_full_path(trace) == trace.full_path
get_filename(trace) == <<"basename", trace.full_path>>
get_display_name(trace) == <<"name", trace.full_path>>
get_centre(trace) == <<"centre", trace.full_path>>
get_points(trace) == trace.points
\* distance, speeds, duration and dates shown by the labels
get_summary(trace) == <<"summary", trace.full_path>>

\* ------------------------------------------------------------------ helpers
Range(seq) == {seq[i] : i \in 1..Len(seq)}

RECURSIVE Flatten(_)
\* the segments of all tracks, in order (the two outer loops of add_trace)
Flatten(tracklist) ==
    IF tracklist = << >> THEN << >>
    ELSE Head(tracklist) \o Flatten(Tail(tracklist))

RemoveAt(seq, i) == SubSeq(seq, 1, i - 1) \o SubSeq(seq, i + 1, Len(seq))

SeqsUpTo(S, n) == UNION {[1..k -> S] : k \in 0..n}

\* the lists a file chooser can return: no file twice
DistinctSeqsUpTo(S, n) ==
    {q \in SeqsUpTo(S, n) : \A i, j \in 1..Len(q) : q[i] = q[j] => i = j}

\* the element of a one-element set; TheOne({F(x) : x \in {e}}) is F applied to
\* the value of e, with e evaluated once
TheOne(S) == CHOOSE r \in S : TRUE

\* -------------------------------------------------------------------- state
VARIABLES
    tracks,          \* _TrackManager._tracks: dict in insertion order,
                     \*   a sequence of [filename, trace, gpstracks]
    model,           \* _TrackManager.model: ListStore rows <<name, filename>>
    objs,            \* the MapTrack objects created so far: id -> [alpha, points]
    mapTracks,       \* the MapTracks currently added to the map widget
    selection,       \* TreeView selection: index of the selected row, 0 = none
    loadingFiles,    \* MainWindow.loadingFiles
    pendingFiles,    \* the list held by the do_lazy_load timer
    timerActive,     \* the timeout source is installed
    started,         \* lazyLoadFiles(files) of __init__ has run
    autoCenter,      \* MainWindow.autoCenter
    labels,          \* what the six summary labels show
    currentFilename, \* MainWindow.currentFilename
    title,           \* the window title
    centre,          \* the map's centre
    sidebarShown,    \* the track selector is visible
    signals,         \* history: number of track-added / track-removed emitted per path
    handler,         \* history: the handler that ran last
    log              \* history: what that handler did

vars == <<tracks, model, objs, mapTracks, selection, loadingFiles, pendingFiles,
          timerActive, started, autoCenter, labels, currentFilename, title,
          centre, sidebarShown, signals, handler, log>>

\* the program state as one record
State ==
    [tracks |-> tracks, model |-> model, objs |-> objs, mapTracks |-> mapTracks,
     selection |-> selection, loadingFiles |-> loadingFiles,
     pendingFiles |-> pendingFiles, timerActive |-> timerActive,
     started |-> started, autoCenter |-> autoCenter, labels |-> labels,
     currentFilename |-> currentFilename, title |-> title, centre |-> centre,
     sidebarShown |-> sidebarShown, signals |-> signals, log |-> log]

Install(s) ==
    /\ tracks' = s.tracks
    /\ model' = s.model
    /\ objs' = s.objs
    /\ mapTracks' = s.mapTracks
    /\ selection' = s.selection
    /\ loadingFiles' = s.loadingFiles
    /\ pendingFiles' = s.pendingFiles
    /\ timerActive' = s.timerActive
    /\ started' = s.started
    /\ autoCenter' = s.autoCenter
    /\ labels' = s.labels
    /\ currentFilename' = s.currentFilename
    /\ title' = s.title
    /\ centre' = s.centre
    /\ sidebarShown' = s.sidebarShown
    /\ signals' = s.signals
    /\ log' = s.log

\* the history record of a handler that is about to run
NewLog(files) ==
    [files |-> files, dialogs |-> 0, noops |-> 0,
     added |-> 0, removed |-> 0, selected |-> 0, suppressed |-> 0,
     selchanged |-> FALSE, colored |-> {}, ret |-> None]

Begin(s, files) == [s EXCEPT !.log = NewLog(files)]

\* ------------------------------------------------------------ _TrackManager
\* the keys of the dict, in insertion order
Keys(d) == [i \in 1..Len(d) |-> d[i].filename]

HasKey(d, filename) == \E i \in 1..Len(d) : d[i].filename = filename

KeyError == <<"KeyError">>

\* self._tracks[filename]
Lookup(d, filename) ==
    IF HasKey(d, filename)
    THEN LET i == CHOOSE j \in 1..Len(d) : d[j].filename = filename
         IN <<d[i].trace, d[i].gpstracks>>
    ELSE KeyError

\* self._tracks[filename] = (trace, gpstracks): a new key goes last, an existing
\* key keeps its place
DictSet(d, filename, trace, gpstracks) ==
    LET entry == [filename |-> filename, trace |-> trace, gpstracks |-> gpstracks] IN
    IF HasKey(d, filename)
    THEN [i \in 1..Len(d) |-> IF d[i].filename = filename THEN entry ELSE d[i]]
    ELSE Append(d, entry)

get_trace(s, filename) == Lookup(s.tracks, filename)

NAME_IDX == 0
FILENAME_IDX == 1

\* model.get_value(_iter, column): columns count from 0, tuples from 1
get_value(rows, iter, column) == rows[iter][column + 1]

get_trace_from_model(s, iter) == get_trace(s, get_value(s.model, iter, FILENAME_IDX))

RECURSIVE OtherTracks(_, _)
OtherTracks(d, trace) ==
    IF d = << >> THEN << >>
    ELSE (IF trace # Head(d).trace THEN Head(d).gpstracks ELSE << >>)
         \o OtherTracks(Tail(d), trace)

get_other_tracks(s, trace) == OtherTracks(s.tracks, trace)

num_traces(s) == Len(s.tracks)

get_all_traces(s) == [i \in 1..Len(s.tracks) |-> s.tracks[i].trace]

\* the MapTrack objects add_trace creates for a trace, one per segment
NewTrackIds(trace) ==
    [k \in 1..Len(Flatten(get_points(trace))) |-> <<get_full_path(trace), k>>]

\* ---------------------------------------------------------------- MainWindow
\* select_trace without the test of loadingFiles
select_trace_unguarded(s, trace) ==
    [s EXCEPT !.labels = get_summary(trace),
              !.currentFilename = get_filename(trace),
              !.title = get_filename(trace),
              !.centre = IF s.autoCenter THEN get_centre(trace) ELSE @,
              !.log.selected = @ + 1]

select_trace(s, trace) ==
    IF s.loadingFiles # 0
    THEN [s EXCEPT !.log.suppressed = @ + 1]
    ELSE [s EXCEPT !.labels = get_summary(trace),
                   !.currentFilename = get_filename(trace),
                   !.title = get_filename(trace),
                   !.centre = IF s.autoCenter THEN get_centre(trace) ELSE @,
                   !.log.selected = @ + 1]

\* on_track_added that selects the trace and adds nothing to the map
on_track_added_nomap(s, trace, gpstracks) ==
    select_trace(s, trace)

on_track_added(s, trace, gpstracks) ==
    TheOne({select_trace(s1, trace) :
                s1 \in {[s EXCEPT !.mapTracks = @ \cup Range(gpstracks)]}})

\* on_track_removed that takes every MapTrack off the map
on_track_removed_clear(s, trace, gpstracks) ==
    [s EXCEPT !.mapTracks = {}]

on_track_removed(s, trace, gpstracks) ==
    [s EXCEPT !.mapTracks = @ \ Range(gpstracks)]

\* add_trace without the test "filename not in self._tracks"
add_trace_unguarded(s, trace) ==
    LET filename == get_full_path(trace)
        segments == Flatten(get_points(trace))
        gpstracks == NewTrackIds(trace)
        s1 == [s EXCEPT
                 !.objs = [o \in Range(gpstracks) |->
                             [alpha |-> ALPHA_NEW, points |-> segments[o[2]]]] @@ @,
                 !.tracks = DictSet(@, filename, trace, gpstracks),
                 !.model = Append(@, <<get_display_name(trace), filename>>),
                 !.signals.added[filename] = @ + 1,
                 !.log.added = @ + 1]
    IN on_track_added(s1, trace, gpstracks)

\* add_trace that makes no MapTrack for a segment without points
add_trace_skipempty(s, trace) ==
    LET filename == get_full_path(trace) IN
    IF HasKey(s.tracks, filename)
    THEN [s EXCEPT !.log.noops = @ + 1]
    ELSE LET segments == Flatten(get_points(trace))
             gpstracks == SelectSeq(NewTrackIds(trace), LAMBDA o : segments[o[2]] # << >>)
             s1 == [s EXCEPT
                      !.objs = [o \in Range(gpstracks) |->
                                  [alpha |-> ALPHA_NEW, points |-> segments[o[2]]]] @@ @,
                      !.tracks = DictSet(@, filename, trace, gpstracks),
                      !.model = Append(@, <<get_display_name(trace), filename>>),
                      !.signals.added[filename] = @ + 1,
                      !.log.added = @ + 1]
         IN on_track_added(s1, trace, gpstracks)

add_trace(s, trace) ==
    LET filename == get_full_path(trace) IN
    IF HasKey(s.tracks, filename)
    THEN [s EXCEPT !.log.noops = @ + 1]
    ELSE LET segments == Flatten(get_points(trace))
             gpstracks == NewTrackIds(trace)
             s1 == [s EXCEPT
                      !.objs = [o \in Range(gpstracks) |->
                                  [alpha |-> ALPHA_NEW, points |-> segments[o[2]]]] @@ @,
                      !.tracks = DictSet(@, filename, trace, gpstracks),
                      !.model = Append(@, <<get_display_name(trace), filename>>),
                      !.signals.added[filename] = @ + 1,
                      !.log.added = @ + 1]
         IN on_track_added(s1, trace, gpstracks)

show_track_selector(s) == [s EXCEPT !.sidebarShown = TRUE]

show_gpx_error(s) == [s EXCEPT !.log.dialogs = @ + 1]

\* load_gpx that swallows the parse error without reporting it
load_gpx_silent(s, filename) ==
    IF GPXTraceRaises(filename)
    THEN [s EXCEPT !.log.ret = None]
    ELSE LET trace == GPXTrace(filename)
             s2 == TheOne({IF num_traces(s1) > 1 THEN show_track_selector(s1) ELSE s1 :
                             s1 \in {add_trace(s, trace)}})
         IN [s2 EXCEPT !.log.ret = <<"trace", get_full_path(trace)>>]

\* load_gpx: the state it leaves; its return value is kept in log.ret
load_gpx(s, filename) ==
    IF GPXTraceRaises(filename)
    THEN [show_gpx_error(s) EXCEPT !.log.ret = None]
    ELSE LET trace == GPXTrace(filename)
             s2 == TheOne({IF num_traces(s1) > 1 THEN show_track_selector(s1) ELSE s1 :
                             s1 \in {add_trace(s, trace)}})
         IN [s2 EXCEPT !.log.ret = <<"trace", get_full_path(trace)>>]

select_tracks(s, gpstracks, alpha) ==
    [s EXCEPT !.objs = [o \in DOMAIN @ |->
                          IF o \in Range(gpstracks) THEN [@[o] EXCEPT !.alpha = alpha]
                          ELSE @[o]]]

\* on_selection_changed that highlights the selection and forgets to dim the rest
on_selection_changed_nodim(s) ==
    IF s.selection = 0 THEN s
    ELSE LET entry == get_trace_from_model(s, s.selection)
             s1 == select_trace(s, entry[1])
             s2 == select_tracks(s1, entry[2], ALPHA_SELECTED)
         IN [s2 EXCEPT !.log.selchanged = TRUE]

on_selection_changed(s) ==
    IF s.selection = 0 THEN s
    ELSE LET entry == get_trace_from_model(s, s.selection)
             trace == entry[1]
             gpstracks == entry[2]
             s1 == select_trace(s, trace)
             s2 == select_tracks(s1, gpstracks, ALPHA_SELECTED)
             s3 == select_tracks(s2, get_other_tracks(s2, trace), ALPHA_UNSELECTED)
         IN [s3 EXCEPT !.log.selchanged = TRUE]

\* model.remove(_iter) fires the selection's "changed" when the removed row was
\* the selected one; which row, if any, the tree view selects next is the
\* toolkit's choice (next = 0: none)
model_remove(s, iter, next) ==
    LET s1 == [s EXCEPT !.model = RemoveAt(@, iter)] IN
    IF s.selection = iter
    THEN on_selection_changed([s1 EXCEPT !.selection = next])
    ELSE [s1 EXCEPT !.selection = IF @ > iter THEN @ - 1 ELSE @]

delete_trace_from_model(s, iter, next) ==
    LET filename == get_value(s.model, iter, FILENAME_IDX)
        entry == Lookup(s.tracks, filename)
        s1 == on_track_removed(s, entry[1], entry[2])
        s2 == [s1 EXCEPT !.signals.removed[filename] = @ + 1,
                         !.log.removed = @ + 1]
    IN model_remove(s2, iter, next)

button_track_delete_clicked(s, next) ==
    IF s.selection # 0 THEN delete_trace_from_model(s, s.selection, next) ELSE s

RECURSIVE LoadEach(_, _)
\* for filename in filechooser.get_filenames(): self.load_gpx(filename)
LoadEach(s, files) ==
    IF files = << >> THEN s
    ELSE LoadEach(load_gpx(s, Head(files)), Tail(files))

\* open_gpx that ends the suppression of select_trace once its files are loaded
open_gpx_resets(s, files) == [LoadEach(s, files) EXCEPT !.loadingFiles = 0]

open_gpx(s, files) == LoadEach(s, files)

\* do_lazy_load that counts only the files that loaded
do_lazy_load_countloaded(s) ==
    IF s.pendingFiles = << >>
    THEN [s EXCEPT !.loadingFiles = 0, !.timerActive = FALSE]
    ELSE LET n == Len(s.pendingFiles)
             filename == s.pendingFiles[n]
             s1 == [s EXCEPT !.pendingFiles = SubSeq(@, 1, n - 1),
                             !.log.files = <<filename>>]
             s2 == load_gpx(s1, filename)
         IN IF s2.log.ret = None THEN s2 ELSE [s2 EXCEPT !.loadingFiles = @ - 1]

\* do_lazy_load that takes the first pending path: _files.pop(0)
do_lazy_load_popfirst(s) ==
    IF s.pendingFiles = << >>
    THEN [s EXCEPT !.loadingFiles = 0, !.timerActive = FALSE]
    ELSE LET filename == Head(s.pendingFiles)
             s1 == [s EXCEPT !.pendingFiles = Tail(@),
                             !.log.files = <<filename>>]
             s2 == load_gpx(s1, filename)
         IN [s2 EXCEPT !.loadingFiles = @ - 1]

\* do_lazy_load that lowers the counter before it loads
do_lazy_load_decfirst(s) ==
    IF s.pendingFiles = << >>
    THEN [s EXCEPT !.loadingFiles = 0, !.timerActive = FALSE]
    ELSE LET n == Len(s.pendingFiles)
             filename == s.pendingFiles[n]
             s1 == [s EXCEPT !.pendingFiles = SubSeq(@, 1, n - 1),
                             !.loadingFiles = @ - 1,
                             !.log.files = <<filename>>]
         IN load_gpx(s1, filename)

\* do_lazy_load whose load reports no parse error
do_lazy_load_quiet(s) ==
    IF s.pendingFiles = << >>
    THEN [s EXCEPT !.loadingFiles = 0, !.timerActive = FALSE]
    ELSE LET n == Len(s.pendingFiles)
             filename == s.pendingFiles[n]
             s1 == [s EXCEPT !.pendingFiles = SubSeq(@, 1, n - 1),
                             !.log.files = <<filename>>]
             s2 == load_gpx_silent(s1, filename)
         IN [s2 EXCEPT !.loadingFiles = @ - 1]

\* do_lazy_load that returns True on the empty list as well
do_lazy_load_forever(s) ==
    IF s.pendingFiles = << >>
    THEN [s EXCEPT !.loadingFiles = 0]
    ELSE LET n == Len(s.pendingFiles)
             filename == s.pendingFiles[n]
             s1 == [s EXCEPT !.pendingFiles = SubSeq(@, 1, n - 1),
                             !.log.files = <<filename>>]
             s2 == load_gpx(s1, filename)
         IN [s2 EXCEPT !.loadingFiles = @ - 1]

\* one call of the timer callback
do_lazy_load(s) ==
    IF s.pendingFiles = << >>
    THEN [s EXCEPT !.loadingFiles = 0, !.timerActive = FALSE]
    ELSE LET n == Len(s.pendingFiles)
             filename == s.pendingFiles[n]
             s1 == [s EXCEPT !.pendingFiles = SubSeq(@, 1, n - 1),
                             !.log.files = <<filename>>]
             s2 == load_gpx(s1, filename)
         IN [s2 EXCEPT !.loadingFiles = @ - 1]

RECURSIVE DirectLoad(_, _, _, _)
\* the for loop of lazyLoadFiles, at files[k] with the local i
DirectLoad(s, files, k, i) ==
    IF k > Len(files) THEN s
    ELSE LET s1 == [s EXCEPT !.loadingFiles = i]
             s2 == load_gpx(s1, files[k])
         IN IF i < LAZY_LOAD_AFTER_N_FILES
            THEN DirectLoad(s2, files, k + 1, i + 1)
            ELSE LET s3 == [s2 EXCEPT !.loadingFiles = 0]
                 IN IF GPXTraceRaises(files[k]) THEN s3
                    ELSE select_trace(s3, GPXTrace(files[k]))

lazyLoadFiles(s, files) ==
    LET s0 == [s EXCEPT !.loadingFiles = 0] IN
    IF files = << >> THEN s0
    ELSE IF Len(files) < LAZY_LOAD_AFTER_N_FILES
         THEN DirectLoad(s0, files, 1, 0)
         ELSE [s0 EXCEPT !.loadingFiles = Len(files),
                         !.pendingFiles = files,
                         !.timerActive = TRUE]

auto_center_toggled(s) == [s EXCEPT !.autoCenter = ~@]

IndexError == <<"IndexError">>

\* the colours the user can pick in the ColorSelectionDialog
Colors == {<<"red">>, <<"blue">>}

\* the Properties button: color is the colour picked with OK, None after Cancel.
\* OsmGpsMapTracks[0] raises IndexError for an entry without MapTracks, before
\* anything is changed.  The colour of a MapTrack only presets the dialog and
\* is not part of the state here; log.colored keeps the set_color calls made.
button_track_properties_clicked(s, color) ==
    IF s.selection = 0 THEN s
    ELSE LET gpstracks == get_trace_from_model(s, s.selection)[2] IN
         IF gpstracks = << >> THEN [s EXCEPT !.log.ret = IndexError]
         ELSE IF color = None THEN s
         ELSE [s EXCEPT !.log.colored = {<<o, color>> : o \in Range(gpstracks)}]

\* ------------------------------------------------------------------ actions
Init ==
    /\ tracks = << >>
    /\ model = << >>
    /\ objs = << >>
    /\ mapTracks = {}
    /\ selection = 0
    /\ loadingFiles = 0
    /\ pendingFiles = << >>
    /\ timerActive = FALSE
    /\ started = FALSE
    /\ autoCenter \in BOOLEAN
    /\ labels = None
    /\ currentFilename = None
    /\ title = <<"GPX Viewer">>
    /\ centre = None
    /\ sidebarShown = FALSE
    /\ signals = [added |-> [f \in Files |-> 0], removed |-> [f \in Files |-> 0]]
    /\ handler = "__init__"
    /\ log = NewLog(<< >>)

\* MainWindow.__init__ calls lazyLoadFiles(files) once, before the main loop
Startup ==
    /\ ~started
    /\ handler' = "lazyLoadFiles"
    /\ \E files \in SeqsUpTo(Files, MaxFiles) :
         \E s \in {lazyLoadFiles(Begin(State, files), files)} :
             Install([s EXCEPT !.started = TRUE])

\* the 100 ms timeout fires
Tick ==
    /\ started
    /\ timerActive
    /\ handler' = "do_lazy_load"
    /\ \E s0 \in {Begin(State, << >>)} : \E s \in {do_lazy_load(s0)} : Install(s)

\* the user chooses files in the Open dialog (none: the dialog is cancelled)
OpenGpx ==
    /\ started
    /\ handler' = "open_gpx"
    /\ \E files \in DistinctSeqsUpTo(Files, MaxOpen) :
         \E s \in {open_gpx(Begin(State, files), files)} : Install(s)

\* the user selects another row of the track list
SelectRow ==
    /\ started
    /\ handler' = "on_selection_changed"
    /\ \E i \in 1..Len(model) :
         /\ i # selection
         /\ \E s \in {on_selection_changed(
                        [Begin(State, << >>) EXCEPT !.selection = i])} : Install(s)

\* the user clicks Delete with a row selected
DeleteTrack ==
    /\ started
    /\ selection # 0
    /\ handler' = "button_track_delete_clicked"
    /\ \E next \in 0..(Len(model) - 1) :
         \E s \in {button_track_delete_clicked(Begin(State, << >>), next)} :
             Install(s)

\* the user toggles the Center menu item
ToggleCenter ==
    /\ started
    /\ handler' = "auto_center_toggled"
    /\ \E s \in {auto_center_toggled(Begin(State, << >>))} : Install(s)

\* the user clicks Properties with a row selected and picks a colour or cancels
TrackProperties ==
    /\ started
    /\ selection # 0
    /\ handler' = "button_track_properties_clicked"
    /\ \E color \in Colors \cup {None} :
         \E s \in {button_track_properties_clicked(Begin(State, << >>), color)} :
             Install(s)

Next ==
    \/ Startup
    \/ Tick
    \/ OpenGpx
    \/ SelectRow
    \/ DeleteTrack
    \/ ToggleCenter
    \/ TrackProperties

Spec == Init /\ [][Next]_vars

\* the timer of the main loop keeps firing while it is installed
FairSpec == Spec /\ WF_vars(Tick)

\* ------------------------------------------------------------------- claims
\* the file paths of the display rows
RowFiles == {get_value(model, i, FILENAME_IDX) : i \in 1..Len(model)}

\* the keys of the registry
KeySet == Range(Keys(tracks))

\* the MapTracks of the registry entry of a path
OverlaysOf(filename) == Range(Lookup(tracks, filename)[2])

AllParse(files) == \A i \in 1..Len(files) : ~GPXTraceRaises(files[i])
NoneParse(files) == \A i \in 1..Len(files) : GPXTraceRaises(files[i])

\* C1: in every reachable state the set of file paths of the display rows
\* equals the set of keys of the registry.
C1_RowsEqualKeys == RowFiles = KeySet

RECURSIVE SumOver(_, _)
\* the sum of f over S
SumOver(f, S) ==
    IF S = {} THEN 0
    ELSE LET x == CHOOSE y \in S : TRUE IN f[x] + SumOver(f, S \ {x})

\* C2: num_traces() equals the number of track-added notifications (distinct
\* paths added) minus the number of removals.
C2_CountIsAddedMinusRemoved ==
    num_traces(State) = SumOver(signals.added, Files) - SumOver(signals.removed, Files)

\* a handler that loaded exactly one file has just run on that file
LoadedOne(h, l) ==
    /\ h \in {"open_gpx", "do_lazy_load"}
    /\ Len(l.files) = 1

\* C3: add_trace is idempotent on path: a load of a path that is already in
\* the registry changes neither the registry, the display rows, the MapTrack
\* objects nor the map and emits no track-added; no path ever has more than
\* one display row or more than one track-added notification.
C3_AddIdempotent ==
    [][ /\ (LoadedOne(handler', log') /\ HasKey(tracks, log'.files[1])) =>
              /\ tracks' = tracks
              /\ model' = model
              /\ objs' = objs
              /\ mapTracks' = mapTracks
              /\ signals' = signals
              /\ log'.added = 0
              /\ log'.noops = 1
        /\ \A f \in Files :
              /\ Cardinality({i \in 1..Len(model') : get_value(model', i, FILENAME_IDX) = f}) <= 1
              /\ signals'.added[f] = (IF HasKey(tracks', f) THEN 1 ELSE 0)
      ]_vars

\* a path that has its row is loaded a second time
C3_Witness ==
    /\ LoadedOne(handler, log)
    /\ log.noops = 1
    /\ log.files[1] \in RowFiles
    /\ Len(model) = 2

\* C4: after lazyLoadFiles of one or two parseable paths all of them are
\* loaded and the trace of the last path is the current one.
C4_LastIsSelected ==
    (/\ handler = "lazyLoadFiles"
     /\ Len(log.files) \in 1..(LAZY_LOAD_AFTER_N_FILES - 1)
     /\ AllParse(log.files)) =>
        LET last == GPXTrace(log.files[Len(log.files)]) IN
        /\ Range(log.files) \subseteq KeySet
        /\ ~timerActive
        /\ labels = get_summary(last)
        /\ title = get_filename(last)
        /\ currentFilename = get_filename(last)

\* one step of the pending counter
C5_Step ==
    /\ (handler' = "lazyLoadFiles" /\ Len(log'.files) >= LAZY_LOAD_AFTER_N_FILES) =>
          /\ tracks' = tracks
          /\ model' = model
          /\ mapTracks' = mapTracks
          /\ log'.added + log'.noops + log'.dialogs = 0
          /\ loadingFiles' = Len(log'.files)
          /\ pendingFiles' = log'.files
          /\ timerActive'
    /\ started => loadingFiles' <= loadingFiles
    /\ (handler' = "do_lazy_load" /\ pendingFiles # << >>) =>
          /\ loadingFiles' = loadingFiles - 1
          /\ pendingFiles' = SubSeq(pendingFiles, 1, Len(pendingFiles) - 1)
          /\ log'.files = <<pendingFiles[Len(pendingFiles)]>>
          /\ log'.added + log'.noops + log'.dialogs = 1
    /\ timerActive' => loadingFiles' = Len(pendingFiles')

\* C5: lazyLoadFiles of 3 or more paths loads nothing itself and sets the
\* pending counter to the number of paths; every tick attempts exactly one
\* pending path and lowers the counter by one; the counter never increases
\* and reaches 0.
C5_BulkCounter ==
    /\ [][C5_Step]_vars
    /\ (timerActive ~> (loadingFiles = 0 /\ pendingFiles = << >>))

\* the tick that loaded the last pending path of a bulk load
C5_Witness ==
    /\ handler = "do_lazy_load"
    /\ log.added = 1
    /\ timerActive
    /\ loadingFiles = 0
    /\ Len(tracks) = 2

\* C6: while the pending counter is nonzero, and so while paths of a bulk
\* load remain pending, no handler changes the labels, the title,
\* currentFilename or the map centre.
C6_NoSelectWhileLoading ==
    [][ (loadingFiles # 0 \/ pendingFiles # << >>) =>
            /\ labels' = labels
            /\ title' = title
            /\ currentFilename' = currentFilename
            /\ centre' = centre
            /\ log'.selected = 0
      ]_vars

\* the user selects a row while paths of a bulk load are pending
C6_Witness ==
    /\ handler = "on_selection_changed"
    /\ log.suppressed = 1
    /\ pendingFiles # << >>
    /\ autoCenter

\* C7: right after on_selection_changed ran for a selected row, every MapTrack
\* of the selected row's entry has alpha 0.8 and every MapTrack of every
\* other row's entry has alpha 0.5.
C7_SelectionAlpha ==
    log.selchanged =>
        /\ selection \in 1..Len(model)
        /\ \A i \in 1..Len(model) :
              \A o \in OverlaysOf(get_value(model, i, FILENAME_IDX)) :
                  objs[o].alpha = (IF i = selection THEN ALPHA_SELECTED
                                   ELSE ALPHA_UNSELECTED)

\* a row is selected while another trace is loaded, during a bulk load
C7_Witness ==
    /\ log.selchanged
    /\ Len(model) = 2
    /\ timerActive
    /\ \A i \in 1..Len(model) : OverlaysOf(get_value(model, i, FILENAME_IDX)) # {}

\* the MapTracks of the entries that are loaded (have a row) other than trace's
LoadedOthers(trace) ==
    UNION {OverlaysOf(f) : f \in {g \in RowFiles : Lookup(tracks, g)[1] # trace}}

\* C8: for every trace t, get_other_tracks(t) is exactly the MapTracks of the
\* currently loaded entries other than t's, each once.
C8_OthersExact ==
    \A f \in Files :
        ~GPXTraceRaises(f) =>
            LET others == get_other_tracks(State, GPXTrace(f)) IN
            /\ Range(others) = LoadedOthers(GPXTrace(f))
            /\ Len(others) = Cardinality(LoadedOthers(GPXTrace(f)))

\* C9: a load of files that all fail to parse leaves the registry, the
\* display rows, the MapTracks and the map unchanged, emits no track-added,
\* shows the error dialog for each and returns None; no entry or row is ever
\* made for a file that does not parse.
C9_ParseFailure ==
    [][ /\ (/\ \/ handler' \in {"open_gpx", "do_lazy_load"}
               \/ /\ handler' = "lazyLoadFiles"
                  /\ Len(log'.files) < LAZY_LOAD_AFTER_N_FILES
            /\ log'.files # << >>
            /\ NoneParse(log'.files)) =>
              /\ tracks' = tracks
              /\ model' = model
              /\ objs' = objs
              /\ mapTracks' = mapTracks
              /\ signals' = signals
              /\ log'.added = 0
              /\ log'.dialogs = Len(log'.files)
              /\ log'.ret = None
        /\ \A i \in 1..Len(tracks') :
              /\ ~GPXTraceRaises(tracks'[i].filename)
              /\ tracks'[i].trace = GPXTrace(tracks'[i].filename)
        /\ \A f \in RowFiles' : ~GPXTraceRaises(f)
      ]_vars

\* a file that does not parse is opened while a trace is loaded
C9_Witness ==
    /\ handler = "open_gpx"
    /\ log.dialogs = 1
    /\ log.ret = None
    /\ Len(model) >= 1

\* C10: get_trace(path) returns the entry of a path that is loaded and raises
\* for a path that was never added and for a path whose entry was removed.
C10_AbsentRaises ==
    \A f \in Files :
        IF signals.added[f] > signals.removed[f]
        THEN get_trace(State, f) = <<GPXTrace(f), NewTrackIds(GPXTrace(f))>>
        ELSE get_trace(State, f) = KeyError

\* the traces of the display rows, in row order (rows are appended in load order)
LoadedTraces ==
    [i \in 1..Len(model) |-> Lookup(tracks, get_value(model, i, FILENAME_IDX))[1]]

\* C11: get_all_traces() returns exactly the traces that are currently loaded
\* (those whose entry has not been removed), in load order, so the statistics
\* never aggregate a removed trace.
C11_AllTracesAreLoaded == get_all_traces(State) = LoadedTraces

\* the MapTracks of the entry whose row is selected
SelectedOverlays == OverlaysOf(get_value(model, selection, FILENAME_IDX))

\* the alpha of every MapTrack of the rows other than the selected one is what
\* it was
OthersKeepAlpha ==
    \A g \in RowFiles \ {get_value(model, selection, FILENAME_IDX)} :
        \A o \in OverlaysOf(g) : objs'[o].alpha = objs[o].alpha

\* C12 as stated: removing a trace removes exactly that trace's overlays from
\* the map; every other entry's overlays stay on the map and keep the opacity
\* they had before the removal.
C12_RemoveKeepsOthers ==
    [][ (handler' = "button_track_delete_clicked" /\ log'.removed = 1) =>
            /\ mapTracks' = mapTracks \ SelectedOverlays
            /\ OthersKeepAlpha
      ]_vars

\* C12 amended: removing a trace removes exactly that trace's overlays from
\* the map and every other row's overlays stay on it; the opacities stay as
\* they were when no row is selected afterwards; when the tree view selects
\* another row, on_selection_changed runs for it within the removal and sets
\* its overlays to 0.8 and those of every other row to 0.5.
C12_RemoveThenRestyle ==
    [][ (handler' = "button_track_delete_clicked" /\ log'.removed = 1) =>
            /\ mapTracks' = mapTracks \ SelectedOverlays
            /\ \A g \in RowFiles \ {get_value(model, selection, FILENAME_IDX)} :
                  (OverlaysOf(g) \subseteq mapTracks) => (OverlaysOf(g) \subseteq mapTracks')
            /\ tracks' = tracks
            /\ IF selection' = 0
               THEN /\ OthersKeepAlpha
                    /\ ~log'.selchanged
               ELSE /\ log'.selchanged
                    /\ \A i \in 1..Len(model') :
                          \A o \in OverlaysOf(get_value(model', i, FILENAME_IDX)) :
                              objs'[o].alpha = (IF i = selection' THEN ALPHA_SELECTED
                                                ELSE ALPHA_UNSELECTED)
      ]_vars

\* one of two loaded traces is removed and the tree view selects the other,
\* whose overlays were dimmed
C12_Witness ==
    /\ handler = "button_track_delete_clicked"
    /\ log.removed = 1
    /\ Len(model) = 1
    /\ selection = 1
    /\ Len(tracks) = 2
    /\ SelectedOverlays # {}
    /\ SelectedOverlays \subseteq mapTracks
    /\ mapTracks = SelectedOverlays

RECURSIVE SegmentCount(_)
\* the number of segments of a trace's points, summed over its tracks
SegmentCount(tracklist) ==
    IF tracklist = << >> THEN 0
    ELSE Len(Head(tracklist)) + SegmentCount(Tail(tracklist))

\* C13: every registry entry has one MapTrack per segment of its trace, the
\* segments counted over all tracks and the empty ones included, and the
\* entry's MapTrack sequence never changes once the entry exists.
C13_OverlayPerSegment ==
    [][ \A i \in 1..Len(tracks') :
            /\ Len(tracks'[i].gpstracks) = SegmentCount(get_points(tracks'[i].trace))
            /\ \A j, k \in 1..Len(tracks'[i].gpstracks) :
                  tracks'[i].gpstracks[j] = tracks'[i].gpstracks[k] => j = k
            /\ i <= Len(tracks) => tracks'[i] = tracks[i]
      ]_vars

\* the entry of a trace with two tracks, three segments, one of them empty,
\* after its row was removed
C13_Witness ==
    /\ handler = "button_track_delete_clicked"
    /\ signals.removed["b.gpx"] = 1
    /\ HasKey(tracks, "b.gpx")
    /\ Len(get_points(Lookup(tracks, "b.gpx")[1])) = 2
    /\ \E k \in 1..3 : objs[Lookup(tracks, "b.gpx")[2][k]].points = << >>
    /\ Len(Lookup(tracks, "b.gpx")[2]) = 3

\* C14: whenever no file load is pending (lazyLoadFiles has returned on its
\* synchronous path, or the bulk timer has consumed its list) the pending
\* counter loadingFiles is 0, so that the next select_trace is not suppressed.
C14_IdleCounterZero ==
    (started /\ pendingFiles = << >>) => loadingFiles = 0

\* C15: after the entry of a path was removed, a later load of that path
\* creates the entry again: the registry has it, a display row is appended,
\* track-added is emitted and its overlays are on the map.
C15_ReloadAfterRemove ==
    [][ (/\ LoadedOne(handler', log')
         /\ ~GPXTraceRaises(log'.files[1])
         /\ signals.removed[log'.files[1]] > 0
         /\ log'.files[1] \notin RowFiles) =>
            /\ HasKey(tracks', log'.files[1])
            /\ log'.files[1] \in RowFiles'
            /\ Len(model') = Len(model) + 1
            /\ log'.added = 1
            /\ signals'.added[log'.files[1]] = signals.added[log'.files[1]] + 1
            /\ Range(Lookup(tracks', log'.files[1])[2]) \subseteq mapTracks'
      ]_vars

\* the number of load attempts the last handler made: each call of load_gpx
\* ends in add_trace adding, add_trace doing nothing, or the error dialog
Attempts(l) == l.added + l.noops + l.dialogs

\* one step of a bulk load: the list given is the pending list; a tick runs
\* only while the timer is installed, attempts the last pending path once
\* and takes it, and only it, off the list; the tick that finds the list
\* empty attempts nothing and stops the timer; nothing else touches the list
\* or the timer, and a stopped timer stays stopped
C16_Step ==
    /\ (handler' = "lazyLoadFiles" /\ Len(log'.files) >= LAZY_LOAD_AFTER_N_FILES) =>
          /\ pendingFiles' = log'.files
          /\ timerActive'
          /\ Attempts(log') = 0
    /\ handler' = "do_lazy_load" =>
          /\ timerActive
          /\ IF pendingFiles # << >>
             THEN /\ timerActive'
                  /\ pendingFiles' = SubSeq(pendingFiles, 1, Len(pendingFiles) - 1)
                  /\ log'.files = <<pendingFiles[Len(pendingFiles)]>>
                  /\ Attempts(log') = 1
                  /\ (log'.dialogs = 1) = GPXTraceRaises(pendingFiles[Len(pendingFiles)])
             ELSE /\ ~timerActive'
                  /\ pendingFiles' = << >>
                  /\ Attempts(log') = 0
    /\ (started /\ handler' # "do_lazy_load") =>
          /\ pendingFiles' = pendingFiles
          /\ timerActive' = timerActive
    /\ (started /\ ~timerActive) => (~timerActive' /\ pendingFiles' = << >>)

\* C16: a bulk load of 3 or more paths terminates under fair timer ticks:
\* every tick attempts one path of the given list and removes it, whether it
\* parsed or not, so that every given path is attempted exactly once; then
\* the callback returns False, the timer is stopped with the pending list
\* empty, and it never fires again.
C16_BulkTerminates ==
    /\ [][C16_Step]_vars
    /\ (timerActive ~> (~timerActive /\ pendingFiles = << >>))

\* the tick that found the list empty and stopped the timer, two traces loaded
C16_Witness ==
    /\ handler = "do_lazy_load"
    /\ ~timerActive
    /\ pendingFiles = << >>
    /\ Attempts(log) = 0
    /\ Len(tracks) = 2
    /\ Len(model) = 2

\* the last handler loaded one file, by handler h, and the file did not parse
FailedLoad(h, l, name) ==
    /\ h = name
    /\ Len(l.files) = 1
    /\ GPXTraceRaises(l.files[1])

\* C17 as stated: during a bulk load a parse error of a file is discarded
\* without an error dialog, whereas a single file opened by the user
\* surfaces the dialog.
C17_BulkErrorSilent ==
    [][ /\ FailedLoad(handler', log', "do_lazy_load") => log'.dialogs = 0
        /\ FailedLoad(handler', log', "open_gpx") => log'.dialogs = 1
      ]_vars

\* C17 amended: a parse error shows the error dialog on every load path:
\* the tick of a bulk load shows it once for the file it attempted, as the
\* Open dialog does for a single file, and the bulk load goes on: the path is
\* off the pending list, the counter is one lower and the timer stays
\* installed.
C17_BulkErrorDialog ==
    [][ /\ FailedLoad(handler', log', "do_lazy_load") =>
              /\ log'.dialogs = 1
              /\ log'.ret = None
              /\ log'.added = 0
              /\ pendingFiles' = SubSeq(pendingFiles, 1, Len(pendingFiles) - 1)
              /\ loadingFiles' = loadingFiles - 1
              /\ timerActive'
        /\ FailedLoad(handler', log', "open_gpx") =>
              /\ log'.dialogs = 1
              /\ log'.ret = None
              /\ log'.added = 0
      ]_vars

\* a tick of a bulk load attempted a file that does not parse, more pending
C17_Witness ==
    /\ FailedLoad(handler, log, "do_lazy_load")
    /\ log.dialogs = 1
    /\ pendingFiles # << >>
    /\ loadingFiles = Len(pendingFiles)
    /\ timerActive

\* the MapTracks of the entries that have a display row
RowOverlays == UNION {OverlaysOf(f) : f \in RowFiles}

\* C18: in every reachable state the MapTracks added to the map are exactly
\* those of the entries that have a display row: track-added adds all the
\* MapTracks of the entry whose row is appended, track-removed removes all
\* those of the entry whose row is deleted, and nothing else adds or removes
\* a MapTrack of the map.
C18_MapShowsRows ==
    /\ [](mapTracks = RowOverlays)
    /\ [][ /\ mapTracks' \ mapTracks = UNION {OverlaysOf(f)' : f \in RowFiles' \ RowFiles}
           /\ mapTracks \ mapTracks' = UNION {OverlaysOf(f) : f \in RowFiles \ RowFiles'}
           /\ (RowFiles' \ RowFiles # {}) = (log'.added > 0)
           /\ (RowFiles \ RowFiles' # {}) = (log'.removed > 0)
         ]_vars

\* a trace is added after another was removed: the map shows the new one only
C18_Witness ==
    /\ handler = "open_gpx"
    /\ log.added = 1
    /\ Len(tracks) = 2
    /\ Len(model) = 1
    /\ mapTracks = OverlaysOf(get_value(model, 1, FILENAME_IDX))
    /\ Cardinality(mapTracks) = 3

\* the handlers of the user's actions
UserHandlers ==
    {"open_gpx", "on_selection_changed", "button_track_delete_clicked",
     "button_track_properties_clicked", "auto_center_toggled"}

\* C19: the user's actions between the ticks of a bulk load (opening a file,
\* selecting a row, deleting, changing a colour, toggling the centring) never
\* change the pending counter, the pending list or the timer; so whenever the
\* timer is installed the counter is the number of paths not yet attempted.
C19_UserActionsKeepPending ==
    /\ [](timerActive => loadingFiles = Len(pendingFiles))
    /\ [][ handler' \in UserHandlers =>
              /\ started
              /\ loadingFiles' = loadingFiles
              /\ pendingFiles' = pendingFiles
              /\ timerActive' = timerActive
         ]_vars

\* the user recolours a trace while two paths of a bulk load are pending
C19_Witness ==
    /\ handler = "button_track_properties_clicked"
    /\ log.colored # {}
    /\ timerActive
    /\ Len(pendingFiles) = 2
    /\ loadingFiles = 2

\* nothing has been selected since the window was built
NothingSelected ==
    /\ labels = None
    /\ currentFilename = None
    /\ title = <<"GPX Viewer">>
    /\ centre = None

\* C20: a bulk load selects nothing by itself: the counter is lowered only
\* after the load of a tick, its track-added handler included, has finished,
\* so select_trace is suppressed for every trace a tick adds, the last one
\* too; no tick, the one that stops the timer included, changes the current
\* trace, the labels, the title or the centre, and up to the load of the last
\* path they are what they were when the bulk load started.
C20_BulkSelectsNothing ==
    /\ []((timerActive /\ pendingFiles # << >>) => NothingSelected)
    /\ [][ handler' = "do_lazy_load" =>
              /\ labels' = labels
              /\ currentFilename' = currentFilename
              /\ title' = title
              /\ centre' = centre
              /\ log'.selected = 0
              /\ log'.suppressed = log'.added
              /\ (pendingFiles # << >>) => NothingSelected'
         ]_vars

\* the tick that loaded the last pending path added a trace and selected nothing
C20_Witness ==
    /\ handler = "do_lazy_load"
    /\ log.added = 1
    /\ log.suppressed = 1
    /\ pendingFiles = << >>
    /\ loadingFiles = 0
    /\ timerActive
    /\ autoCenter
    /\ NothingSelected
    /\ Len(model) = 1

RECURSIVE NewInOrder(_, _)
\* the paths of files, first to last, that parse and are neither in known nor
\* earlier in files: what loading files in that order adds
NewInOrder(files, known) ==
    IF files = << >> THEN << >>
    ELSE IF GPXTraceRaises(Head(files)) \/ Head(files) \in known
         THEN NewInOrder(Tail(files), known)
         ELSE <<Head(files)>> \o NewInOrder(Tail(files), known \cup {Head(files)})

\* the file paths of the display rows, in row order
RowPaths == [i \in 1..Len(model) |-> get_value(model, i, FILENAME_IDX)]

\* the place of a path in the registry: its rank in the order of loading
LoadRank(filename) == CHOOSE i \in 1..Len(tracks) : tracks[i].filename = filename

\* the paths the step attempted, in the order it attempted them, are order,
\* and the registry and the rows grew by what loading them in that order adds
LoadedInOrder(order) ==
    /\ Keys(tracks') = Keys(tracks) \o NewInOrder(order, KeySet)
    /\ RowPaths' = RowPaths \o NewInOrder(order, KeySet)

\* C21: the load order depends on the path taken: lazyLoadFiles of fewer
\* than 3 paths loads them first to last, a bulk load takes the last pending
\* path at every tick and so loads them last to first; on either path, and
\* for the files of the Open dialog, the display rows and get_all_traces()
\* list the traces in the order in which they were loaded.
C21_LoadOrder ==
    /\ [](/\ \A i, j \in 1..Len(model) :
                i < j => LoadRank(RowPaths[i]) < LoadRank(RowPaths[j])
          /\ get_all_traces(State) = [i \in 1..Len(tracks) |-> GPXTrace(Keys(tracks)[i])])
    /\ [][ /\ (handler' = "lazyLoadFiles" /\ Len(log'.files) < LAZY_LOAD_AFTER_N_FILES) =>
                LoadedInOrder(log'.files)
           /\ (handler' = "lazyLoadFiles" /\ Len(log'.files) >= LAZY_LOAD_AFTER_N_FILES) =>
                /\ pendingFiles' = log'.files
                /\ LoadedInOrder(<< >>)
           /\ (handler' = "do_lazy_load" /\ pendingFiles # << >>) =>
                /\ log'.files = <<pendingFiles[Len(pendingFiles)]>>
                /\ pendingFiles' = SubSeq(pendingFiles, 1, Len(pendingFiles) - 1)
                /\ LoadedInOrder(log'.files)
           /\ handler' = "open_gpx" => LoadedInOrder(log'.files)
           /\ SubSeq(get_all_traces(State)', 1, Len(tracks)) = get_all_traces(State)
         ]_vars

\* the second tick of a bulk load added a.gpx, after b.gpx; one path is pending
C21_Witness ==
    /\ handler = "do_lazy_load"
    /\ log.files = <<"a.gpx">>
    /\ log.added = 1
    /\ Len(pendingFiles) = 1
    /\ RowPaths = <<"b.gpx", "a.gpx">>
    /\ get_all_traces(State) = <<GPXTrace("b.gpx"), GPXTrace("a.gpx")>>

====
